---- MODULE Spec2Model ----
(***************************************************************************)
(* Construction-material tracker (app.py): the purchase log                *)
(* (construction_materials.csv), the usage log (material_usage.csv), the   *)
(* remaining-inventory reducer and the request handlers that mutate the    *)
(* two logs.                                                               *)
(*                                                                         *)
(* A log is a sequence of records.  The code addresses rows 0-based        *)
(* (DataFrame index after read_csv / reset_index); TLA+ sequences are      *)
(* 1-based, so row i of the code is element i + 1 here (see iloc).         *)
(* Quantities and costs are modelled as integers, dates as day numbers.    *)
(* The fields uid (purchase) and puid (usage) are history fields that the  *)
(* program does not store: uid names a purchase record for its lifetime,   *)
(* puid is the uid of the purchase a usage was recorded against.  No       *)
(* operation reads them.  The variable seen is a history variable too: the *)
(* kinds of lost update that have happened so far among requests that run  *)
(* at the same time.                                                       *)
(***************************************************************************)
EXTENDS Integers, Sequences, FiniteSets

VARIABLES materials, usage, pre, resp, pc, local, seen

vars == <<materials, usage, pre, resp, pc, local, seen>>

\* ------------------------------------------------------------------ bounds
MaxMaterials == 2
MaxUsage == 2
\* requests one client sends while two clients are served at the same time
MaxRequests == 3

\* Values a client may type in the forms.  The handlers put no range check on
\* them (float() alone), so a non-positive purchase quantity and a negative unit
\* cost are among them.
Quantities == {-1, 2}
UnitCosts == {-1, 1}
UsedQuantities == {1, 2}
Dates == {1}
\* the one value that stands for text float() cannot parse
NotANumber == [num |-> FALSE, val |-> 0]
Number(v) == [num |-> TRUE, val |-> v]

\* ----------------------------------------------------------------- helpers
Range(s) == {s[i] : i \in 1..Len(s)}

\* DataFrame.iloc[i]: the row at 0-based position i
iloc(df, i) == df[i + 1]

\* pd.concat([df, new_row], ignore_index=True)
concat(df, row) == Append(df, row)

RECURSIVE SumUsedQuantity(_)
\* Series.sum() of the Used_Quantity column
SumUsedQuantity(df) ==
    IF df = <<>> THEN 0
    ELSE Head(df).Used_Quantity + SumUsedQuantity(Tail(df))

\* Faulty variant of UsageOf: the filter written with >= instead of ==.
UsageOf_ge(usage_df, material_id) ==
    SelectSeq(usage_df, LAMBDA u : u.Material_ID >= material_id)

\* usage_df[usage_df['Material_ID'] == material_id]
UsageOf(usage_df, material_id) ==
    SelectSeq(usage_df, LAMBDA u : u.Material_ID = material_id)

\* float(request.form[...]) succeeds exactly on numeric text; no range check
float_ok(field) == field.num
float(field) == field.val

\* a fresh history name for a new purchase record
FreshUid(materials_df, usage_df) ==
    LET used == {m.uid : m \in Range(materials_df)} \cup {u.puid : u \in Range(usage_df)}
    IN  CHOOSE n \in 1..(Cardinality(used) + 1) :
            n \notin used /\ \A k \in 1..(n - 1) : k \in used

\* ------------------------------------------------- inventory reducer (56-100)
\* Faulty variant of RemainingRow: Status compared with < 0 instead of <= 0.
RemainingRow_lt(materials_df, usage_df, material_id) ==
    LET material == iloc(materials_df, material_id)
        original_quantity == material.Quantity
        material_usage == UsageOf(usage_df, material_id)
        total_used == IF material_usage # <<>> THEN SumUsedQuantity(material_usage) ELSE 0
        remaining_quantity == original_quantity - total_used
    IN  [Material_ID |-> material_id,
         Original_Quantity |-> original_quantity,
         Used_Quantity |-> total_used,
         Remaining_Quantity |-> remaining_quantity,
         Unit_Cost |-> material.Unit_Cost,
         Remaining_Value |-> remaining_quantity * material.Unit_Cost,
         Status |-> IF remaining_quantity < 0 THEN "Depleted" ELSE "Available"]

\* one row of remaining_materials for the purchase at 0-based position material_id
RemainingRow(materials_df, usage_df, material_id) ==
    LET material == iloc(materials_df, material_id)
        original_quantity == material.Quantity
        material_usage == UsageOf(usage_df, material_id)
        total_used == IF material_usage # <<>> THEN SumUsedQuantity(material_usage) ELSE 0
        remaining_quantity == original_quantity - total_used
    IN  [Material_ID |-> material_id,
         Original_Quantity |-> original_quantity,
         Used_Quantity |-> total_used,
         Remaining_Quantity |-> remaining_quantity,
         Unit_Cost |-> material.Unit_Cost,
         Remaining_Value |-> remaining_quantity * material.Unit_Cost,
         Status |-> IF remaining_quantity <= 0 THEN "Depleted" ELSE "Available"]

\* calculate_remaining_materials(): an empty frame for an empty purchase log,
\* else one row per purchase, in log order
calculate_remaining_materials(materials_df, usage_df) ==
    IF materials_df = <<>> THEN <<>>
    ELSE [i \in 1..Len(materials_df) |-> RemainingRow(materials_df, usage_df, i - 1)]

\* ------------------------------------------------------------ responses
\* What the last request was and what it answered: the handler, the id in its
\* URL, the numbers of its form, the HTTP status, the error shown and the rows
\* handed to the template.
NoForm == [quantity |-> Number(0), unit_cost |-> Number(0), used_quantity |-> Number(0)]
NoResp == [op |-> "none", status |-> 0, error |-> "", arg |-> 0, form |-> NoForm, rows |-> <<>>]
Resp(op, status, error, arg) ==
    [op |-> op, status |-> status, error |-> error, arg |-> arg, form |-> NoForm, rows |-> <<>>]
RespForm(op, status, error, arg, form) ==
    [op |-> op, status |-> status, error |-> error, arg |-> arg, form |-> form, rows |-> <<>>]

Snapshot == [materials |-> materials, usage |-> usage]

\* ------------------------------------------------------- add_material (210-234)
MaterialRow(quantity, unit_cost, uid) ==
    [uid |-> uid, Quantity |-> float(quantity), Unit_Cost |-> float(unit_cost),
     Total_Cost |-> float(quantity) * float(unit_cost)]

\* the purchase log add_material saves for a form both of whose numbers parse
add_material_log(materials_df, usage_df, quantity, unit_cost) ==
    concat(materials_df, MaterialRow(quantity, unit_cost, FreshUid(materials_df, usage_df)))

add_material(quantity, unit_cost) ==
    /\ pre' = Snapshot
    /\ LET form == [NoForm EXCEPT !.quantity = quantity, !.unit_cost = unit_cost] IN
       IF float_ok(quantity) /\ float_ok(unit_cost)
       THEN /\ Len(materials) < MaxMaterials
            /\ materials' = add_material_log(materials, usage, quantity, unit_cost)
            /\ resp' = RespForm("add_material", 302, "", 0, form)
       ELSE \* float() raises ValueError before anything is loaded or saved
            /\ materials' = materials
            /\ resp' = RespForm("add_material", 500, "ValueError", 0, form)
    /\ UNCHANGED <<usage, pc, local, seen>>

\* ---------------------------------------------------------- add_usage (384-427)
UsageRow(materials_df, material_id, used_quantity, usage_date) ==
    [Usage_Date |-> usage_date, Material_ID |-> material_id,
     Used_Quantity |-> used_quantity, puid |-> iloc(materials_df, material_id).uid]

\* line 389: the only check on material_id (the route admits no negative id)
add_usage_known(materials_df, material_id) == ~(material_id >= Len(materials_df))

\* Faulty variant of add_usage_exceeds: the bound is the purchased quantity,
\* not what remains of it.
add_usage_exceeds_original(materials_df, usage_df, material_id, used_quantity) ==
    used_quantity > iloc(materials_df, material_id).Quantity

\* line 404: the request is refused when this holds
add_usage_exceeds(materials_df, usage_df, material_id, used_quantity) ==
    LET remaining_df == calculate_remaining_materials(materials_df, usage_df)
        material_remaining == Head(SelectSeq(remaining_df, LAMBDA r : r.Material_ID = material_id))
    IN  used_quantity > material_remaining.Remaining_Quantity

add_usage(material_id, used_field, usage_date) ==
    /\ pre' = Snapshot
    /\ LET form == [NoForm EXCEPT !.used_quantity = used_field] IN
       IF ~add_usage_known(materials, material_id)
       THEN \* line 390: redirect, nothing read from the form
            /\ usage' = usage
            /\ resp' = RespForm("add_usage", 302, "", material_id, form)
       ELSE IF ~float_ok(used_field)
       THEN /\ usage' = usage
            /\ resp' = RespForm("add_usage", 500, "ValueError", material_id, form)
       ELSE IF add_usage_exceeds(materials, usage, material_id, float(used_field))
       THEN \* lines 405-407: the form again, with error_message
            /\ usage' = usage
            /\ resp' = RespForm("add_usage", 200, "exceeds remaining", material_id, form)
       ELSE /\ Len(usage) < MaxUsage
            /\ usage' = concat(usage, UsageRow(materials, material_id, float(used_field), usage_date))
            /\ resp' = RespForm("add_usage", 302, "", material_id, form)
    /\ UNCHANGED <<materials, pc, local, seen>>

\* ------------------------------------------------------- delete_entry (469-498)
\* Faulty variant of delete_found: the upper bound written with <=.
delete_found_le(materials_df, entry_id) == 0 <= entry_id /\ entry_id <= Len(materials_df)

\* line 477
delete_found(materials_df, entry_id) == 0 <= entry_id /\ entry_id < Len(materials_df)

\* Faulty variant of drop: entry_id taken as a 1-based position.
drop_one_based(materials_df, entry_id) ==
    SubSeq(materials_df, 1, entry_id - 1) \o SubSeq(materials_df, entry_id + 1, Len(materials_df))

\* line 480: materials_df.drop(materials_df.index[entry_id]).reset_index(drop=True)
drop(materials_df, entry_id) ==
    SubSeq(materials_df, 1, entry_id) \o SubSeq(materials_df, entry_id + 2, Len(materials_df))

\* Faulty variant of drop_usage: the usage of the deleted purchase is kept.
drop_usage_none(usage_df, entry_id) == usage_df

\* line 484: usage_df[usage_df['Material_ID'] != entry_id]
drop_usage(usage_df, entry_id) ==
    SelectSeq(usage_df, LAMBDA u : u.Material_ID # entry_id)

\* line 486: usage_df.loc[usage_df['Material_ID'] > entry_id, 'Material_ID'] -= 1
renumber(usage_df, entry_id) ==
    [i \in 1..Len(usage_df) |->
        IF usage_df[i].Material_ID > entry_id
        THEN [usage_df[i] EXCEPT !.Material_ID = @ - 1]
        ELSE usage_df[i]]

\* Faulty variant of delete_usage: the renumbering of line 486 is left out.
delete_usage_no_renumber(usage_df, entry_id) == drop_usage(usage_df, entry_id)

\* lines 484-486
delete_usage(usage_df, entry_id) == renumber(drop_usage(usage_df, entry_id), entry_id)

delete_entry(entry_id) ==
    /\ pre' = Snapshot
    /\ IF delete_found(materials, entry_id)
       THEN /\ materials' = drop(materials, entry_id)
            /\ usage' = delete_usage(usage, entry_id)
            /\ resp' = Resp("delete_entry", 200, "", entry_id)
       ELSE /\ UNCHANGED <<materials, usage>>
            /\ resp' = Resp("delete_entry", 404, "Entry not found", entry_id)
    /\ UNCHANGED <<pc, local, seen>>

\* ------------------------------------------------------ material_usage (337-382)
\* the view without filters: the rows of calculate_remaining_materials()
material_usage ==
    /\ resp' = [Resp("material_usage", 200, "", 0) EXCEPT
                    !.rows = calculate_remaining_materials(materials, usage)]
    /\ UNCHANGED <<materials, usage, pre, pc, local, seen>>

\* ------------------------------------------------------ usage_history (433-467)
Perms(n) == {f \in [1..n -> 1..n] : \A i, j \in 1..n : f[i] = f[j] => i = j}

\* df.sort_values('Usage_Date', ascending=False): the default sort is not stable,
\* so rows of equal date may come out in any order
sort_values_desc(df) ==
    {[i \in 1..Len(df) |-> df[f[i]]] : f \in
        {g \in Perms(Len(df)) :
            \A i, j \in 1..Len(df) : i < j => df[g[i]].Usage_Date >= df[g[j]].Usage_Date}}

RECURSIVE RunningTotals(_, _, _)
\* lines 446-462: the loop over material_usage, cumulative_used carried along
RunningTotals(material_usage_df, cumulative_used, quantity) ==
    IF material_usage_df = <<>> THEN <<>>
    ELSE LET u == Head(material_usage_df)
             cumulative == cumulative_used + u.Used_Quantity
         IN  <<[Usage_Date |-> u.Usage_Date,
                Used_Quantity |-> u.Used_Quantity,
                Cumulative_Used |-> cumulative,
                Remaining_After |-> quantity - cumulative]>>
             \o RunningTotals(Tail(material_usage_df), cumulative, quantity)

\* list.reverse()
reverse(s) == [i \in 1..Len(s) |-> s[Len(s) + 1 - i]]

\* lines 443-465 for one outcome of the sort
usage_records(sorted_df, quantity) == reverse(RunningTotals(sorted_df, 0, quantity))

usage_history(material_id) ==
    /\ IF material_id >= Len(materials)
       THEN resp' = Resp("usage_history", 302, "", material_id)
       ELSE \E sorted_df \in sort_values_desc(UsageOf(usage, material_id)) :
                resp' = [Resp("usage_history", 200, "", material_id) EXCEPT
                            !.rows = usage_records(sorted_df, iloc(materials, material_id).Quantity)]
    /\ UNCHANGED <<materials, usage, pre, pc, local, seen>>

\* ------------------------------------------------------------ specification
Procs == {"r1"}
Idle == [p \in Procs |-> "idle"]
NoLocal == [p \in Procs |-> [materials_df |-> <<>>, usage_df |-> <<>>, entry_id |-> 0]]

Init ==
    /\ materials = <<>>
    /\ usage = <<>>
    /\ pre = [materials |-> <<>>, usage |-> <<>>]
    /\ resp = NoResp
    /\ pc = Idle
    /\ local = NoLocal
    /\ seen = {}

QuantityFields == {Number(v) : v \in Quantities} \cup {NotANumber}
UnitCostFields == {Number(v) : v \in UnitCosts} \cup {NotANumber}
UsedFields == {Number(v) : v \in UsedQuantities} \cup {NotANumber}
\* ids a client may put in a URL: <int:...> admits the non-negative integers
UrlIds == 0..MaxMaterials

\* The mutating handlers, each request run to completion before the next.
Next ==
    \/ \E q \in QuantityFields, c \in UnitCostFields : add_material(q, c)
    \/ \E id \in UrlIds, u \in UsedFields, d \in Dates : add_usage(id, u, d)
    \/ \E id \in UrlIds : delete_entry(id)

Spec == Init /\ [][Next]_vars

\* ------------------------------------------- the read-only views on given logs
\* Purchase rows and usage rows the two files may hold when a view is requested;
\* a usage row may name a position the purchase log does not have.
ViewPurchases == {<<2, 1>>, <<3, 2>>}
ViewUsed == {1, 2}
ViewDates == {1, 2}

ViewMaterialLogs ==
    UNION {{[i \in 1..n |-> [uid |-> i, Quantity |-> f[i][1], Unit_Cost |-> f[i][2],
                              Total_Cost |-> f[i][1] * f[i][2]]] :
                f \in [1..n -> ViewPurchases]} : n \in 0..MaxMaterials}

ViewUsageLogs(materials_df) ==
    UNION {{[i \in 1..n |-> [Usage_Date |-> f[i][1], Material_ID |-> f[i][2],
                              Used_Quantity |-> f[i][3],
                              puid |-> IF f[i][2] < Len(materials_df)
                                       THEN iloc(materials_df, f[i][2]).uid ELSE 0]] :
                f \in [1..n -> ViewDates \X (0..Len(materials_df)) \X ViewUsed]} :
           n \in 0..MaxUsage}

\* the usage-history scenario: 100 bought, 10 used on day 1 and 5 on day 5
ScenarioMaterials == <<[uid |-> 1, Quantity |-> 100, Unit_Cost |-> 10, Total_Cost |-> 1000]>>
ScenarioUsage ==
    <<[Usage_Date |-> 1, Material_ID |-> 0, Used_Quantity |-> 10, puid |-> 1],
      [Usage_Date |-> 5, Material_ID |-> 0, Used_Quantity |-> 5, puid |-> 1]>>

\* the inventory scenarios: the same purchase (100 at unit cost 10) with 30 used,
\* and with 100 used
Scenario30Usage ==
    <<[Usage_Date |-> 1, Material_ID |-> 0, Used_Quantity |-> 30, puid |-> 1]>>
Scenario100Usage ==
    <<[Usage_Date |-> 1, Material_ID |-> 0, Used_Quantity |-> 100, puid |-> 1]>>

InitView ==
    /\ \/ materials \in ViewMaterialLogs /\ usage \in ViewUsageLogs(materials)
       \/ materials = ScenarioMaterials /\ usage = ScenarioUsage
       \/ materials = ScenarioMaterials /\ usage \in {Scenario30Usage, Scenario100Usage}
    /\ pre = [materials |-> <<>>, usage |-> <<>>]
    /\ resp = NoResp
    /\ pc = Idle
    /\ local = NoLocal
    /\ seen = {}

NextView ==
    \/ material_usage
    \/ \E id \in UrlIds : usage_history(id)

SpecView == InitView /\ [][NextView]_vars

\* ------------------------------------- delete_entry, one file operation at a time
\* A request p is at "idle" (not running), "save_materials" (line 480 done, line
\* 481 next) or "save_usage" (line 481 done, lines 484-487 next).  The server
\* runs one request at a time; the process may die, or a save may raise, between
\* any two file operations.

\* lines 474-480, and the answer of line 494 when the id is not found
delete_load(p, entry_id) ==
    /\ pc = Idle
    /\ pre' = Snapshot
    /\ IF delete_found(materials, entry_id)
       THEN /\ local' = [local EXCEPT ![p] = [materials_df |-> drop(materials, entry_id),
                                               usage_df |-> usage,
                                               entry_id |-> entry_id]]
            /\ pc' = [pc EXCEPT ![p] = "save_materials"]
            /\ resp' = Resp("delete_entry", 0, "", entry_id)
       ELSE /\ UNCHANGED <<local, pc>>
            /\ resp' = Resp("delete_entry", 404, "Entry not found", entry_id)
    /\ UNCHANGED <<materials, usage, seen>>

\* line 481: save_data(materials_df)
delete_save_materials(p) ==
    /\ pc[p] = "save_materials"
    /\ materials' = local[p].materials_df
    /\ pc' = [pc EXCEPT ![p] = "save_usage"]
    /\ UNCHANGED <<usage, pre, resp, local, seen>>

\* lines 484-492: filter, renumber, save_usage_data(usage_df), answer
delete_save_usage(p) ==
    /\ pc[p] = "save_usage"
    /\ usage' = delete_usage(local[p].usage_df, local[p].entry_id)
    /\ resp' = Resp("delete_entry", 200, "", local[p].entry_id)
    /\ pc' = [pc EXCEPT ![p] = "idle"]
    /\ local' = [local EXCEPT ![p] = NoLocal[p]]
    /\ UNCHANGED <<materials, pre, seen>>

\* the request ends before its next file operation: the process is killed, or
\* the save raises and lines 496-498 answer 500
delete_fails(p) ==
    /\ pc[p] \in {"save_materials", "save_usage"}
    /\ resp' = Resp("delete_entry", 500, "Error deleting entry", local[p].entry_id)
    /\ pc' = [pc EXCEPT ![p] = "idle"]
    /\ local' = [local EXCEPT ![p] = NoLocal[p]]
    /\ UNCHANGED <<materials, usage, pre, seen>>

NextCrash ==
    \/ pc = Idle /\ \E q \in QuantityFields, c \in UnitCostFields : add_material(q, c)
    \/ pc = Idle /\ \E id \in UrlIds, u \in UsedFields, d \in Dates : add_usage(id, u, d)
    \/ \E p \in Procs, id \in UrlIds : delete_load(p, id)
    \/ \E p \in Procs : delete_save_materials(p)
    \/ \E p \in Procs : delete_save_usage(p)
    \/ \E p \in Procs : delete_fails(p)

SpecCrash == Init /\ [][NextCrash]_vars

\* --------------------------------- two requests at a time, one file access a step
\* No handler takes a lock: each loads a whole log, changes its copy in memory
\* and writes the whole copy back.  A request p is at "idle" or at the file
\* access it is about to make.  local[p] holds what the request has in memory
\* (materials_df, usage_df, the id of its URL, the row it appends) and, as
\* history, the request p completed last with success (done), the requests of
\* the same handler that had loaded and not yet written when p loaded (with)
\* and whether every usage record named its own purchase when p began (clean).
\* The history of a request that has answered stays for as long as a request
\* that overlapped it is still running.
RaceProcs == {"r1", "r2"}
RaceQuantity == Number(2)
RaceUnitCost == Number(1)
RaceUsed == 1
\* each of the two clients dates its usage differently
RaceDate(p) == IF p = "r1" THEN 1 ELSE 2

NoRow == [uid |-> 0, puid |-> 0]
RaceLocal ==
    [materials_df |-> <<>>, usage_df |-> <<>>, entry_id |-> 0, row |-> NoRow,
     done |-> "none", with |-> {}, clean |-> TRUE, served |-> 0]

\* nothing in memory, the count of requests served kept
Reset(l) == [RaceLocal EXCEPT !.served = l.served]

\* every usage record names the purchase it was recorded against
Consistent(materials_df, usage_df) ==
    \A j \in 1..Len(usage_df) :
        /\ usage_df[j].Material_ID < Len(materials_df)
        /\ iloc(materials_df, usage_df[j].Material_ID).uid = usage_df[j].puid

\* the other requests that are at one of the steps in at
Running(p, at) == {q \in RaceProcs \ {p} : pc[q] \in at}

\* what a request has at its start
Begin(p, entry_id) ==
    [RaceLocal EXCEPT !.entry_id = entry_id, !.clean = Consistent(materials, usage),
                      !.served = local[p].served + 1]

\* what is left of request p when it has answered with success
Finished(p, done) ==
    [local EXCEPT ![p] = [local[p] EXCEPT !.materials_df = <<>>, !.usage_df = <<>>,
                                          !.entry_id = 0, !.done = done]]

\* loc when p starts a request or answers with an error: what the others hold
\* about the request p served before is dropped
Forget(loc, p) ==
    [q \in RaceProcs |->
        IF q = p THEN loc[q] ELSE [loc[q] EXCEPT !.with = @ \ {p}]]

\* loc with the history dropped of every request that has answered and that no
\* running request overlapped
Settled(loc, pcs) ==
    [p \in RaceProcs |->
        IF pcs[p] = "idle"
           /\ \A q \in RaceProcs \ {p} :
                 pcs[q] = "idle" \/ ~(q \in loc[p].with \/ p \in loc[q].with)
        THEN Reset(loc[p]) ELSE loc[p]]

\* a fresh history name, not that of a row another request is about to append
RaceFreshUid ==
    LET used == {m.uid : m \in Range(materials)} \cup {u.puid : u \in Range(usage)}
                \cup {local[q].row.uid : q \in {r \in RaceProcs : "uid" \in DOMAIN local[r].row}}
                \cup {m.uid : m \in UNION {Range(local[q].materials_df) : q \in RaceProcs}}
    IN  CHOOSE n \in 1..(Cardinality(used) + 1) : n \notin used

\* Faulty variant of written_log: the row is appended to what the file holds at
\* the time of the write.
written_log_current(loaded_df, current_df, row) == concat(current_df, row)

\* lines 229-232 and 422-425: what an append request writes, given the log it
\* loaded, the log in the file at the time of the write, and its row
written_log(loaded_df, current_df, row) == concat(loaded_df, row)

\* the two requests p and q ran at the same time
Overlapped(p, q) == q \in local[p].with \/ p \in local[q].with

\* The kinds of lost update shown by logs m, u and request memories loc: of two
\* overlapping appends that both answered with success one row is missing; after
\* two overlapping deletes, the first of them begun on logs in which every usage
\* record named its purchase, a usage record does not.
Anomalies(m, u, loc) ==
    LET over(p, q) == q \in loc[p].with \/ p \in loc[q].with
        pairs == {pq \in RaceProcs \X RaceProcs : pq[1] # pq[2] /\ over(pq[1], pq[2])}
    IN  {"lost_material" : pq \in {x \in pairs :
            /\ loc[x[1]].done = "add_material" /\ loc[x[2]].done = "add_material"
            /\ loc[x[1]].row \notin Range(m) /\ loc[x[2]].row \in Range(m)}}
        \cup
        {"lost_usage" : pq \in {x \in pairs :
            /\ loc[x[1]].done = "add_usage" /\ loc[x[2]].done = "add_usage"
            /\ loc[x[1]].row \notin Range(u) /\ loc[x[2]].row \in Range(u)}}
        \cup
        {"misreferenced" : pq \in {x \in pairs :
            /\ loc[x[1]].done = "delete_entry" /\ loc[x[2]].done = "delete_entry"
            /\ x[1] \notin loc[x[2]].with => loc[x[1]].clean
            /\ x[2] \notin loc[x[1]].with => loc[x[2]].clean
            /\ ~Consistent(m, u)}}

\* line 229 of add_material: load_data()
race_add_material_load(p) ==
    /\ pc[p] = "idle"
    /\ local[p].served < MaxRequests
    /\ Len(materials) < MaxMaterials
    /\ local' = Forget([local EXCEPT ![p] =
                    [Begin(p, 0) EXCEPT
                        !.materials_df = materials,
                        !.with = Running(p, {"add_material_save"}),
                        !.row = MaterialRow(RaceQuantity, RaceUnitCost, RaceFreshUid)]], p)
    /\ pc' = [pc EXCEPT ![p] = "add_material_save"]
    /\ UNCHANGED <<materials, usage, pre, resp, seen>>

\* lines 230-234 of add_material: concat, save_data(df), redirect
race_add_material_save(p) ==
    /\ pc[p] = "add_material_save"
    /\ materials' = written_log(local[p].materials_df, materials, local[p].row)
    /\ pc' = [pc EXCEPT ![p] = "idle"]
    /\ seen' = seen \cup Anomalies(materials', usage, Finished(p, "add_material"))
    /\ local' = Settled(Finished(p, "add_material"), pc')
    /\ UNCHANGED <<usage, pre, resp>>

\* lines 387-395 of add_usage: load_data(), the id check, the material
race_add_usage_load_materials(p, material_id) ==
    /\ pc[p] = "idle"
    /\ local[p].served < MaxRequests
    /\ IF add_usage_known(materials, material_id)
       THEN /\ local' = Forget([local EXCEPT ![p] =
                            [Begin(p, material_id) EXCEPT !.materials_df = materials]], p)
            /\ pc' = [pc EXCEPT ![p] = "add_usage_remaining"]
       ELSE /\ local' = Settled(Forget([local EXCEPT ![p] = Reset(Begin(p, 0))], p), pc)
            /\ pc' = pc
    /\ UNCHANGED <<materials, usage, pre, resp, seen>>

\* lines 397-420 of add_usage: calculate_remaining_materials() on the files as
\* they are now, the check of line 404, usage_data.  The row of line 398 is
\* missing (IndexError, answer 500) when the purchase log has become shorter.
race_add_usage_remaining(p) ==
    /\ pc[p] = "add_usage_remaining"
    /\ LET id == local[p].entry_id IN
       IF add_usage_known(materials, id)
          /\ ~add_usage_exceeds(materials, usage, id, RaceUsed)
       THEN /\ local' = [local EXCEPT ![p].row =
                            UsageRow(local[p].materials_df, id, RaceUsed, RaceDate(p))]
            /\ pc' = [pc EXCEPT ![p] = "add_usage_load_usage"]
       ELSE /\ pc' = [pc EXCEPT ![p] = "idle"]
            /\ local' = Settled(Forget([local EXCEPT ![p] = Reset(local[p])], p), pc')
    /\ UNCHANGED <<materials, usage, pre, resp, seen>>

\* line 422 of add_usage: load_usage_data()
race_add_usage_load_usage(p) ==
    /\ pc[p] = "add_usage_load_usage"
    /\ Len(usage) < MaxUsage
    /\ local' = [local EXCEPT ![p].usage_df = usage,
                               ![p].with = Running(p, {"add_usage_save"})]
    /\ pc' = [pc EXCEPT ![p] = "add_usage_save"]
    /\ UNCHANGED <<materials, usage, pre, resp, seen>>

\* lines 423-427 of add_usage: concat, save_usage_data(usage_df), redirect
race_add_usage_save(p) ==
    /\ pc[p] = "add_usage_save"
    /\ usage' = written_log(local[p].usage_df, usage, local[p].row)
    /\ pc' = [pc EXCEPT ![p] = "idle"]
    /\ seen' = seen \cup Anomalies(materials, usage', Finished(p, "add_usage"))
    /\ local' = Settled(Finished(p, "add_usage"), pc')
    /\ UNCHANGED <<materials, pre, resp>>

\* line 474 of delete_entry: load_data()
race_delete_load_materials(p, entry_id) ==
    /\ pc[p] = "idle"
    /\ local[p].served < MaxRequests
    /\ local' = Forget([local EXCEPT ![p] =
                    [Begin(p, entry_id) EXCEPT
                        !.materials_df = materials,
                        !.with = Running(p, {"delete_load_usage", "delete_save_materials",
                                             "delete_save_usage"})]], p)
    /\ pc' = [pc EXCEPT ![p] = "delete_load_usage"]
    /\ UNCHANGED <<materials, usage, pre, resp, seen>>

\* lines 475-480 of delete_entry: load_usage_data(), the range check (404 when
\* it fails), the drop
race_delete_load_usage(p) ==
    /\ pc[p] = "delete_load_usage"
    /\ IF delete_found(local[p].materials_df, local[p].entry_id)
       THEN /\ local' = [local EXCEPT ![p].usage_df = usage]
            /\ pc' = [pc EXCEPT ![p] = "delete_save_materials"]
       ELSE /\ pc' = [pc EXCEPT ![p] = "idle"]
            /\ local' = Settled(Forget([local EXCEPT ![p] = Reset(local[p])], p), pc')
    /\ UNCHANGED <<materials, usage, pre, resp, seen>>

\* line 481 of delete_entry: save_data(materials_df)
race_delete_save_materials(p) ==
    /\ pc[p] = "delete_save_materials"
    /\ materials' = drop(local[p].materials_df, local[p].entry_id)
    /\ pc' = [pc EXCEPT ![p] = "delete_save_usage"]
    /\ UNCHANGED <<usage, pre, resp, local, seen>>

\* lines 484-492 of delete_entry: filter, renumber, save_usage_data(usage_df)
race_delete_save_usage(p) ==
    /\ pc[p] = "delete_save_usage"
    /\ usage' = delete_usage(local[p].usage_df, local[p].entry_id)
    /\ pc' = [pc EXCEPT ![p] = "idle"]
    /\ seen' = seen \cup Anomalies(materials, usage', Finished(p, "delete_entry"))
    /\ local' = Settled(Finished(p, "delete_entry"), pc')
    /\ UNCHANGED <<materials, pre, resp>>

\* the state after one purchase has been recorded
InitRace ==
    /\ materials = <<MaterialRow(RaceQuantity, RaceUnitCost, 1)>>
    /\ usage = <<>>
    /\ pre = [materials |-> <<>>, usage |-> <<>>]
    /\ resp = NoResp
    /\ pc = [p \in RaceProcs |-> "idle"]
    /\ local = [p \in RaceProcs |-> RaceLocal]
    /\ seen = {}

NextRace ==
    \E p \in RaceProcs :
        \/ race_add_material_load(p)
        \/ race_add_material_save(p)
        \/ \E id \in UrlIds : race_add_usage_load_materials(p, id)
        \/ race_add_usage_remaining(p)
        \/ race_add_usage_load_usage(p)
        \/ race_add_usage_save(p)
        \/ \E id \in UrlIds : race_delete_load_materials(p, id)
        \/ race_delete_load_usage(p)
        \/ race_delete_save_materials(p)
        \/ race_delete_save_usage(p)

SpecRace == InitRace /\ [][NextRace]_vars

\* ======================================================================
\* Properties
\* ======================================================================
RECURSIVE SumAt(_, _)
\* the sum of Used_Quantity over the rows of usage_df at the positions in S
SumAt(usage_df, S) ==
    IF S = {} THEN 0
    ELSE LET j == CHOOSE x \in S : TRUE
         IN  usage_df[j].Used_Quantity + SumAt(usage_df, S \ {j})

\* the rows of usage_df that name purchase position id, as a set of positions
RowsNaming(usage_df, id) == {j \in 1..Len(usage_df) : usage_df[j].Material_ID = id}

\* total used of the purchase at 0-based position id
UsedOf(usage_df, id) == SumAt(usage_df, RowsNaming(usage_df, id))

DeleteSucceeded == resp.op = "delete_entry" /\ resp.status = 200

\* C1: calculate_remaining_materials returns one row per purchase record, in log
\* order, Material_ID being the record's 0-based position, and in every row
\* Remaining_Quantity is the purchase's Quantity minus the sum of Used_Quantity
\* over the usage records whose Material_ID is that position (0 when none).
C1_RemainingPerPurchase ==
    resp.op = "material_usage" =>
        /\ Len(resp.rows) = Len(materials)
        /\ \A i \in 1..Len(materials) :
              /\ resp.rows[i].Material_ID = i - 1
              /\ resp.rows[i].Original_Quantity = materials[i].Quantity
              /\ resp.rows[i].Remaining_Quantity =
                    materials[i].Quantity - UsedOf(usage, i - 1)

\* two purchases, the first with two usage records, the second with none, and a
\* usage record that names no purchase
C1_Witness ==
    /\ resp.op = "material_usage"
    /\ Len(materials) = 2
    /\ Cardinality(RowsNaming(usage, 0)) = 2
    /\ RowsNaming(usage, 1) = {}
    /\ resp.rows[1].Used_Quantity # 0

C3_ExcessUsageRejected ==
    (/\ resp.op = "add_usage"
     /\ resp.arg < Len(pre.materials)
     /\ resp.form.used_quantity.num
     /\ resp.form.used_quantity.val >
            iloc(pre.materials, resp.arg).Quantity - UsedOf(pre.usage, resp.arg))
    => /\ resp.status = 200
       /\ resp.error = "exceeds remaining"
       /\ materials = pre.materials
       /\ usage = pre.usage

\* a request for more than what remains of a purchase that was partly used
C3_Witness ==
    /\ resp.op = "add_usage"
    /\ resp.error = "exceeds remaining"
    /\ resp.arg < Len(materials)
    /\ UsedOf(usage, resp.arg) > 0
    /\ resp.form.used_quantity.val <= iloc(materials, resp.arg).Quantity

\* C4: in every state reached by whole add_material, add_usage and delete_entry
\* requests, for every purchase position the used quantities recorded against it
\* sum to no more than the purchase's quantity.
C4_UsedWithinQuantity ==
    \A i \in 1..Len(materials) : UsedOf(usage, i - 1) <= materials[i].Quantity

\* C5: every usage record's material_id is a position of the current purchase
\* log, and the purchase there is the one the usage was recorded against.
C5_UsageRefersToItsPurchase ==
    \A j \in 1..Len(usage) :
        /\ 0 <= usage[j].Material_ID
        /\ usage[j].Material_ID < Len(materials)
        /\ iloc(materials, usage[j].Material_ID).uid = usage[j].puid

\* a usage record that a delete moved to a lower id
C5_Witness ==
    /\ DeleteSucceeded
    /\ \E j \in 1..Len(pre.usage), i \in 1..Len(usage) :
          /\ pre.usage[j].Material_ID > resp.arg
          /\ usage[i].puid = pre.usage[j].puid
          /\ usage[i].Material_ID = pre.usage[j].Material_ID - 1

\* C6: usage_history computes cumulative_used as a prefix sum over the
\* purchase's usage records in ascending usage_date order, with remaining_after
\* = original quantity - cumulative_used, and presents the annotated records in
\* descending date order, latest first.
C6_HistoryLatestFirst ==
    (resp.op = "usage_history" /\ resp.status = 200) =>
        LET rows == resp.rows
            quantity == iloc(materials, resp.arg).Quantity
            mine == RowsNaming(usage, resp.arg)
            n == Cardinality(mine)
            ascending == {f \in [1..n -> mine] :
                            /\ \A i, j \in 1..n : f[i] = f[j] => i = j
                            /\ \A i, j \in 1..n :
                                  i < j => usage[f[i]].Usage_Date <= usage[f[j]].Usage_Date}
        IN  /\ Len(rows) = n
            /\ \A i, j \in 1..n : i < j => rows[i].Usage_Date >= rows[j].Usage_Date
            /\ \E f \in ascending :
                  \A i \in 1..n :
                     LET row == rows[n + 1 - i]
                         cumulative == SumAt(usage, {f[m] : m \in 1..i})
                     IN  /\ row.Usage_Date = usage[f[i]].Usage_Date
                         /\ row.Used_Quantity = usage[f[i]].Used_Quantity
                         /\ row.Cumulative_Used = cumulative
                         /\ row.Remaining_After = quantity - cumulative

\* C7: delete_entry with an id outside [0, length) answers 404 "Entry not found"
\* and leaves both logs as they were; no other delete answers 404.
C7_DeleteNotFound ==
    resp.op = "delete_entry" =>
        IF 0 <= resp.arg /\ resp.arg < Len(pre.materials)
        THEN resp.status # 404
        ELSE /\ resp.status = 404
             /\ resp.error = "Entry not found"
             /\ materials = pre.materials
             /\ usage = pre.usage

\* a refused delete on logs that are not empty
C7_Witness ==
    /\ resp.op = "delete_entry"
    /\ resp.status = 404
    /\ materials # <<>>
    /\ usage # <<>>
    /\ resp.arg >= Len(materials)

\* C8: add_material accepts a record only if quantity > 0 and unit_cost >= 0,
\* appends an accepted record at the end with total_cost = quantity * unit_cost,
\* leaves the log as it was otherwise; hence every purchase record has
\* quantity > 0 and unit_cost >= 0.
C8_PurchaseValidated ==
    /\ resp.op = "add_material" =>
          LET q == resp.form.quantity
              c == resp.form.unit_cost
          IN  IF q.num /\ c.num /\ q.val > 0 /\ c.val >= 0
              THEN /\ Len(materials) = Len(pre.materials) + 1
                   /\ SubSeq(materials, 1, Len(pre.materials)) = pre.materials
                   /\ materials[Len(materials)].Quantity = q.val
                   /\ materials[Len(materials)].Unit_Cost = c.val
                   /\ materials[Len(materials)].Total_Cost = q.val * c.val
              ELSE materials = pre.materials
    /\ \A i \in 1..Len(materials) :
          materials[i].Quantity > 0 /\ materials[i].Unit_Cost >= 0

\* the two logs with the purchase named uid, and the usage recorded against it,
\* left out and the positional ids derived again
PositionOf(materials_df, uid) ==
    (CHOOSE i \in 1..Len(materials_df) : materials_df[i].uid = uid) - 1
WithoutPurchase(materials_df, uid) == SelectSeq(materials_df, LAMBDA m : m.uid # uid)
WithoutUsageOf(materials_df, usage_df, uid) ==
    LET kept == SelectSeq(usage_df, LAMBDA u : u.puid # uid)
        left == WithoutPurchase(materials_df, uid)
    IN  [i \in 1..Len(kept) |-> [kept[i] EXCEPT !.Material_ID = PositionOf(left, kept[i].puid)]]

\* C9: after a successful delete of purchase id k the two logs are the logs one
\* gets from the earlier logs by leaving out purchase k and every usage record
\* recorded against it and deriving the positional ids again; every surviving
\* purchase has the same original, used and remaining quantity in
\* calculate_remaining_materials as before.
C9_DeleteAsIfNeverInserted ==
    DeleteSucceeded =>
        LET k == resp.arg
            gone == iloc(pre.materials, k).uid
            before == calculate_remaining_materials(pre.materials, pre.usage)
            after == calculate_remaining_materials(materials, usage)
        IN  /\ materials = WithoutPurchase(pre.materials, gone)
            /\ usage = WithoutUsageOf(pre.materials, pre.usage, gone)
            /\ \A j \in 0..(Len(pre.materials) - 1) :
                  j # k =>
                    LET new == IF j < k THEN j ELSE j - 1 IN
                    /\ iloc(after, new).Material_ID = new
                    /\ iloc(after, new).Original_Quantity = iloc(before, j).Original_Quantity
                    /\ iloc(after, new).Used_Quantity = iloc(before, j).Used_Quantity
                    /\ iloc(after, new).Remaining_Quantity = iloc(before, j).Remaining_Quantity

\* the first of two purchases deleted, the second one partly used
C9_Witness ==
    /\ DeleteSucceeded
    /\ resp.arg = 0
    /\ Len(pre.materials) = 2
    /\ Len(materials) = 1
    /\ UsedOf(pre.usage, 1) > 0
    /\ UsedOf(usage, 0) = UsedOf(pre.usage, 1)

\* C10: the purchase deletion and the removal and renumbering of usage are
\* persisted as one unit: in no state of the two files, a failed or interrupted
\* delete_entry included, is the deleted purchase gone from the purchase log
\* while the usage log still holds records recorded against it or records whose
\* id was not brought down to their purchase's new position.
C10_DeletePersistedAsOneUnit ==
    (resp.op = "delete_entry" /\ delete_found(pre.materials, resp.arg)) =>
        LET gone == iloc(pre.materials, resp.arg).uid IN
        (\A i \in 1..Len(materials) : materials[i].uid # gone) =>
            \A j \in 1..Len(usage) :
                /\ usage[j].puid # gone
                /\ usage[j].Material_ID = PositionOf(materials, usage[j].puid)

\* C11: in every row of calculate_remaining_materials, Status is Depleted exactly
\* when the remaining quantity is <= 0 and Available otherwise, and
\* Remaining_Value is the remaining quantity times the unit cost; 100 at unit
\* cost 10 with 30 used gives 70, 700, Available, and with 100 used gives 0,
\* Depleted.
C11_StatusAndValue ==
    resp.op = "material_usage" =>
        /\ \A i \in 1..Len(materials) :
              LET remaining == materials[i].Quantity - UsedOf(usage, i - 1)
                  row == resp.rows[i]
              IN  /\ row.Status \in {"Depleted", "Available"}
                  /\ row.Status = "Depleted" <=> remaining <= 0
                  /\ row.Remaining_Value = remaining * materials[i].Unit_Cost
        /\ (materials = ScenarioMaterials /\ usage = Scenario30Usage) =>
              /\ resp.rows[1].Used_Quantity = 30
              /\ resp.rows[1].Remaining_Quantity = 70
              /\ resp.rows[1].Remaining_Value = 700
              /\ resp.rows[1].Status = "Available"
        /\ (materials = ScenarioMaterials /\ usage = Scenario100Usage) =>
              /\ resp.rows[1].Remaining_Quantity = 0
              /\ resp.rows[1].Status = "Depleted"

\* the purchase of the scenario used up exactly
C11_Witness ==
    /\ resp.op = "material_usage"
    /\ materials = ScenarioMaterials
    /\ usage = Scenario100Usage
    /\ resp.rows[1].Status = "Depleted"

\* C12: no handler takes a lock; each loads a whole log, changes its copy and
\* writes the copy back.  What an append writes is the log it loaded plus its
\* row, whatever has been written meanwhile, so the row of an overlapping
\* add_material that answered before is not in the log written; what a delete
\* writes is made from the logs it loaded.
C12_WritesTheLoadedCopy ==
    [][\A p \in RaceProcs :
        /\ (pc[p] = "add_material_save" /\ pc'[p] = "idle") =>
              /\ materials' = Append(local[p].materials_df, local[p].row)
              /\ \A q \in RaceProcs \ {p} :
                    (local[q].done = "add_material" /\ Overlapped(p, q)) =>
                        local[q].row \notin Range(materials')
        /\ (pc[p] = "add_usage_save" /\ pc'[p] = "idle") =>
              usage' = Append(local[p].usage_df, local[p].row)
        /\ (pc[p] = "delete_save_materials" /\ pc'[p] = "delete_save_usage") =>
              /\ Len(materials') = Len(local[p].materials_df) - 1
              /\ Range(materials') \subseteq Range(local[p].materials_df)
        /\ (pc[p] = "delete_save_usage" /\ pc'[p] = "idle") =>
              /\ Len(usage') <= Len(local[p].usage_df)
              /\ {u.puid : u \in Range(usage')} \subseteq
                     {u.puid : u \in Range(local[p].usage_df)}
      ]_vars

\* two add_material requests, two add_usage requests and two delete_entry
\* requests have overlapped, each pair with its lost update: one of two purchase
\* rows missing, one of two usage rows missing, a usage record that no longer
\* names its purchase
C12_Witness == seen = {"lost_material", "lost_usage", "misreferenced"}
====
